---- MODULE Spec2Model ----
(***************************************************************************)
(* A model of the skills of vultr740-byte/openclaw:                        *)
(*   - the Markdown translation pipeline (x-twitter-fetch/scripts/         *)
(*     openai_translate.py, main),                                         *)
(*   - the article renderer (x-twitter-fetch/scripts/fetch_tweet.py,       *)
(*     _render_article_blocks_md),                                         *)
(*   - the fetch clients (twitter-viewer/scripts/fetch_tweet.py,           *)
(*     fetch_user_tweets.py and x-twitter-fetch/scripts/fetch_tweet.py).   *)
(*                                                                         *)
(* A Python str is modelled by the sequence of its characters, each a      *)
(* one-character string; "\n" is the newline character.  split, join,      *)
(* strip, startswith and the one regular expression of the pipeline are    *)
(* computed on these sequences as Python computes them.                    *)
(***************************************************************************)
EXTENDS Integers, Sequences, FiniteSets, TLC

----------------------------------------------------------------------------
(* Python string operations *)

NL == "\n"

\* the characters str.strip() and the regex class \s remove (those the model's alphabet has)
CR == "\r"
WhiteSpace == {" ", "\t", NL, CR}

Digits == {"0", "1", "2", "3", "4", "5", "6", "7", "8", "9"}

\* c repeated n times: c * n
Rep(c, n) == [k \in 1..n |-> c]

\* the first index k >= from with s[k] not in cs; Len(s)+1 when there is none
SkipWhile(s, from, cs) ==
  CHOOSE k \in from..(Len(s) + 1) :
    /\ (k = Len(s) + 1 \/ s[k] \notin cs)
    /\ \A j \in from..(k - 1) : s[j] \in cs

\* the last index k with s[k] not in cs; 0 when there is none
LastNotIn(s, cs) ==
  IF s # <<>> /\ s[Len(s)] \notin cs THEN Len(s)
  ELSE CHOOSE k \in 0..Len(s) :
         /\ (k = 0 \/ s[k] \notin cs)
         /\ \A j \in (k + 1)..Len(s) : s[j] \in cs

\* s.lstrip(cs), s.rstrip(cs), s.strip(cs)
LStripChars(s, cs) == SubSeq(s, SkipWhile(s, 1, cs), Len(s))
RStripChars(s, cs) == SubSeq(s, 1, LastNotIn(s, cs))
StripChars(s, cs) == RStripChars(LStripChars(s, cs), cs)

\* s.strip(), s.rstrip() with no argument: whitespace
Strip(s) == StripChars(s, WhiteSpace)
RStrip(s) == RStripChars(s, WhiteSpace)

\* s.startswith(p)
StartsWith(s, p) == Len(s) >= Len(p) /\ SubSeq(s, 1, Len(p)) = p

\* c in s, for a character c
HasChar(s, c) == \E k \in 1..Len(s) : s[k] = c

\* s.find(sub) as a 1-based index; 0 when sub does not occur (Python: -1)
Find(s, sub) ==
  LET M == {k \in 1..(Len(s) - Len(sub) + 1) : SubSeq(s, k, k + Len(sub) - 1) = sub}
  IN IF M = {} THEN 0 ELSE CHOOSE k \in M : \A j \in M : k <= j

\* s.split(c): the pieces of s between the occurrences of the character c
Split(s, c) ==
  LET P == {k \in 1..Len(s) : s[k] = c}
      n == Cardinality(P)
      pos(j) == IF j = 0 THEN 0
                ELSE IF j = n + 1 THEN Len(s) + 1
                ELSE CHOOSE p \in P : Cardinality({q \in P : q < p}) = j - 1
  IN [j \in 1..(n + 1) |-> SubSeq(s, pos(j - 1) + 1, pos(j) - 1)]

\* sep.join(ls)
RECURSIVE Join(_, _)
Join(ls, sep) ==
  IF ls = <<>> THEN <<>>
  ELSE IF Len(ls) = 1 THEN ls[1]
  ELSE Join(SubSeq(ls, 1, Len(ls) - 1), sep) \o sep \o ls[Len(ls)]

\* line.split(" ", 1): <<prefix, rest>> around the first space (the line has one)
SplitFirstSpace(line) ==
  LET k == SkipWhile(line, 1, {c \in {line[j] : j \in 1..Len(line)} : c # " "})
  IN <<SubSeq(line, 1, k - 1), SubSeq(line, k + 1, Len(line))>>

----------------------------------------------------------------------------
(* openai_translate.py: the translation pipeline *)

VARIABLES
  lines,        \* main: lines, the input document split at newlines
  i,            \* main: position of the for loop, the index of the next line
  in_code,      \* main: in_code
  text_buf,     \* main: text_buf, the paragraph buffer
  out_lines,    \* main: out_lines
  pc,           \* where main is: "loop", the steps of a write, "done", "aborted"
  ret,          \* where write_partial returns to
  out_file,     \* the file at args.out_path, as a reader sees it
  partial_file, \* the file at args.out_path + ".partial"
  calls,        \* the translator calls issued so far, in order
  origin        \* for each element of out_lines, the input lines <<lo, hi>> it was emitted for

\* fetch_tweet.py (x-twitter-fetch), _render_article_blocks_md
VARIABLES
  blocks,       \* the blocks of article["content"]
  md,           \* the string returned
  rpc           \* "start", "rendered"; "idle" when the renderer is not run

\* the fetch commands
VARIABLES
  client,       \* which command runs; "none" when none does
  args,         \* its command line
  response,     \* what the server answers to the one GET
  fetched,      \* what the fetch function returned or raised
  stdout,       \* what the command has printed
  stderr,       \* its diagnostics, a sequence of text pieces
  exit_code,    \* its exit status; -1 while it runs
  written,      \* the file at the --out path; NoFile while there is none
  fpc           \* "start", "fetched", "exited"

\* fetch_tweet.py (x-twitter-fetch), main: the quoted post followed before the extraction
VARIABLES
  obj,          \* the post of the parsed response, obj["tweet"]
  subject,      \* the post of obj["tweet"] after lines 238-249
  article,      \* article of line 258
  note,         \* the NOTE printed on stderr, a sequence of text pieces
  xpc           \* "parsed", "followed", "extracted"; "idle" when not run

\* twitter-viewer fetch_tweet.py, _extract_tweet_id
VARIABLES
  id_text,      \* the argument, text
  tweet_id,     \* the value returned; None is <<"None">>
  ipc           \* "start", "returned"; "idle" when not run

pvars == <<lines, i, in_code, text_buf, out_lines, pc, ret, out_file, partial_file, calls, origin>>
rvars == <<blocks, md, rpc>>
fvars == <<client, args, response, fetched, stdout, stderr, exit_code, written, fpc>>
xvars == <<obj, subject, article, note, xpc>>
ivars == <<id_text, tweet_id, ipc>>
vars == <<pvars, rvars, fvars, xvars, ivars>>

\* the renderer and the fetch commands when a specification does not run them
RendererIdle == blocks = <<>> /\ md = <<>> /\ rpc = "idle"
FetchIdle ==
  /\ client = "none" /\ args = <<>> /\ response = <<>> /\ fetched = <<>>
  /\ stdout = <<>> /\ stderr = <<>> /\ exit_code = -1 /\ written = <<>> /\ fpc = "idle"

SubjectIdle == obj = <<>> /\ subject = <<>> /\ article = "" /\ note = <<>> /\ xpc = "idle"
IdIdle == id_text = <<>> /\ tweet_id = <<>> /\ ipc = "idle"

\* the pipeline when a specification does not run it
PipelineIdle ==
  /\ lines = <<>> /\ i = 1 /\ in_code = FALSE /\ text_buf = <<>> /\ out_lines = <<>>
  /\ origin = <<>> /\ calls = <<>> /\ pc = "idle" /\ ret = "idle"
  /\ out_file = <<>> /\ partial_file = <<>>

\* a path at which no file exists
NoFile == <<"ENOENT">>

\* the grave accent, which a TLA+ string cannot hold: this character stands for it
BackTick == "'"
Fence3 == <<BackTick, BackTick, BackTick>>
Hr == <<"-", "-", "-">>
Http == <<"h", "t", "t", "p", ":", "/", "/">>
Https == <<"h", "t", "t", "p", "s", ":", "/", "/">>

max_chars == 1800

\* line 161: stripped.startswith(Fence3)
IsFenceLine(line) == StartsWith(Strip(line), Fence3)

\* line 171: blank line, hr, bare URL
IsLiteralLine(line) ==
  LET stripped == Strip(line)
  IN \/ stripped = <<>>
     \/ stripped = Hr
     \/ StartsWith(stripped, Http)
     \/ StartsWith(stripped, Https)

\* line 177: stripped.startswith("#") and " " in line
IsHashLine(line) == StartsWith(Strip(line), <<"#">>) /\ HasChar(line, " ")

\* lines 179-180: prefix, rest = line.split(" ", 1); prefix.lstrip("#") == ""
HeadingPrefix(line) == SplitFirstSpace(line)[1]
HeadingRest(line) == SplitFirstSpace(line)[2]
IsHeadingLine(line) == IsHashLine(line) /\ LStripChars(HeadingPrefix(line), {"#"}) = <<>>

\* lines 185-189: stripped.startswith("- "); idx = line.find("- ")
IsUnorderedLine(line) == StartsWith(Strip(line), <<"-", " ">>)
UnorderedPrefix(line) == SubSeq(line, 1, Find(line, <<"-", " ">>) + 1)
UnorderedRest(line) == SubSeq(line, Find(line, <<"-", " ">>) + 2, Len(line))

\* line 194: re.match(r"^(\s*)(\d+\.\s+)(.*)$", line); ws + prefix and rest of the match
OrderedMatch(line) ==
  LET a == SkipWhile(line, 1, WhiteSpace)
      d == SkipWhile(line, a, Digits)
      m == /\ d > a
           /\ d + 1 <= Len(line)
           /\ line[d] = "."
           /\ line[d + 1] \in WhiteSpace
      e == IF m THEN SkipWhile(line, d + 1, WhiteSpace) ELSE 1
  IN [matched |-> m,
      prefix |-> SubSeq(line, 1, e - 1),
      rest |-> SubSeq(line, e, Len(line))]
IsOrderedLine(line) == OrderedMatch(line).matched

\* lines 203-204: len("\n".join(text_buf + [line])) > max_chars
ExceedsBudget(buf, line) == Len(Join(buf \o <<line>>, <<NL>>)) > max_chars

\* mutant: the text is written without rstrip()
FileTextNoRStrip(outl) == Join(outl, <<NL>>) \o <<NL>>

\* lines 149 and 212: "\n".join(out_lines).rstrip() + "\n"
FileText(outl) == RStrip(Join(outl, <<NL>>)) \o <<NL>>

\* mutant: the stripped line is appended
VerbatimStripped(line) == Strip(line)

\* lines 164, 167, 173: out_lines.append(line), the line as it is
Verbatim(line) == line

(* The translator: what _extract_output_text makes of one response, or a    *)
(* failure (HTTPError turned RuntimeError at line 63, URLError, timeout).   *)
Failure == [ok |-> FALSE, text |-> <<>>]
Responses ==
  { [ok |-> TRUE, text |-> <<" ", "T", NL>>],              \* one line, padded
    [ok |-> TRUE, text |-> <<"T", NL>> \o Fence3],    \* two lines, the second a fence marker
    Failure }

\* line 125: _extract_output_text(raw).strip()
Translated(r) == Strip(r.text)

(* The part of main's state one loop iteration works on.  failed: an        *)
(* exception is propagating, and nothing after its raise is executed.      *)
Local == [out_lines |-> out_lines, origin |-> origin, calls |-> calls,
          text_buf |-> text_buf, failed |-> FALSE]

\* mutant: the request is sent a second time
translate_chunk_twice(st, chunk, lo, hi, r) ==
  LET c == [chunk |-> chunk, lo |-> lo, hi |-> hi, ok |-> r.ok,
            reply |-> IF r.ok THEN Translated(r) ELSE <<>>]
  IN [st EXCEPT !.calls = @ \o <<c, c>>, !.failed = ~r.ok]

\* lines 116-125: translate_chunk(chunk), answered by r: one call, logged with the lines it is for
translate_chunk(st, chunk, lo, hi, r) ==
  [st EXCEPT !.calls = Append(@, [chunk |-> chunk, lo |-> lo, hi |-> hi, ok |-> r.ok,
                                     reply |-> IF r.ok THEN Translated(r) ELSE <<>>]),
             !.failed = ~r.ok]

\* lines 132-142: flush_text_buffer(text_buf), the buffer holding the lines up to hi
flush_text_buffer(st, hi, r) ==
  IF st.failed \/ st.text_buf = <<>> THEN st
  ELSE LET chunk == StripChars(Join(st.text_buf, <<NL>>), {NL})
           lo == hi - Len(st.text_buf) + 1
           called == translate_chunk(st, chunk, lo, hi, r)
           new == Split(Translated(r), NL)
       IN IF chunk = <<>> THEN [st EXCEPT !.text_buf = <<>>]
          ELSE IF called.failed THEN called
          ELSE [called EXCEPT !.out_lines = @ \o new,
                              !.origin = @ \o [k \in 1..Len(new) |-> <<lo, hi>>],
                              !.text_buf = <<>>]

\* out_lines.append(s) for input line k
Emit(st, s, k) ==
  IF st.failed THEN st
  ELSE [st EXCEPT !.out_lines = Append(@, s), !.origin = Append(@, <<k, k>>)]

\* lines 181, 190, 198: out_lines.append(prefix + translate_chunk(rest))
EmitTranslated(st, prefix, rest, k, r) ==
  IF st.failed THEN st
  ELSE Emit(translate_chunk(st, rest, k, k, r), prefix \o Translated(r), k)

\* mutant: the exception is swallowed and the loop goes on
CommitSwallow(st, next_pc, next_ret) ==
  /\ out_lines' = st.out_lines
  /\ origin' = st.origin
  /\ calls' = st.calls
  /\ text_buf' = st.text_buf
  /\ pc' = next_pc
  /\ ret' = next_ret
  /\ i' = IF i > Len(lines) THEN i ELSE i + 1
  /\ UNCHANGED <<lines, out_file, partial_file, rvars, fvars, xvars, ivars>>

\* the end of one step of main; a raised exception leaves main, and nothing else runs
Commit(st, next_pc, next_ret) ==
  /\ out_lines' = st.out_lines
  /\ origin' = st.origin
  /\ calls' = st.calls
  /\ text_buf' = st.text_buf
  /\ pc' = IF st.failed THEN "aborted" ELSE next_pc
  /\ ret' = IF st.failed THEN ret ELSE next_ret
  /\ i' = IF st.failed \/ i > Len(lines) THEN i ELSE i + 1
  /\ UNCHANGED <<lines, out_file, partial_file, rvars, fvars, xvars, ivars>>

AtLine == pc = "loop" /\ i <= Len(lines)

\* lines 161-165
FenceLine ==
  /\ AtLine /\ IsFenceLine(lines[i])
  /\ \E r \in Responses :
       LET st == Emit(flush_text_buffer(Local, i - 1, r), Verbatim(lines[i]), i)
       IN /\ Commit(st, "loop", ret)
          /\ in_code' = IF st.failed THEN in_code ELSE ~in_code

\* lines 166-168
CodeLine ==
  /\ AtLine /\ ~IsFenceLine(lines[i]) /\ in_code
  /\ Commit(Emit(Local, Verbatim(lines[i]), i), "loop", ret)
  /\ UNCHANGED in_code

NotCode == AtLine /\ ~IsFenceLine(lines[i]) /\ ~in_code

\* mutant: the literal line is emitted without the flush before it
LiteralLineNoFlush ==
  /\ NotCode /\ IsLiteralLine(lines[i])
  /\ Commit(Emit(Local, Verbatim(lines[i]), i), "loop", ret)
  /\ UNCHANGED in_code

\* lines 170-174
LiteralLine ==
  /\ NotCode /\ IsLiteralLine(lines[i])
  /\ \E r \in Responses :
       Commit(Emit(flush_text_buffer(Local, i - 1, r), Verbatim(lines[i]), i), "loop", ret)
  /\ UNCHANGED in_code

\* lines 176-183
HeadingLine ==
  /\ NotCode /\ ~IsLiteralLine(lines[i]) /\ IsHeadingLine(lines[i])
  /\ \E r1, r2 \in Responses :
       Commit(EmitTranslated(flush_text_buffer(Local, i - 1, r1),
                             HeadingPrefix(lines[i]) \o <<" ">>, HeadingRest(lines[i]), i, r2),
              "wp_open", "loop")
  /\ UNCHANGED in_code

\* what line 177 lets through to the later tests: the flush of line 178 has happened
Plain == NotCode /\ ~IsLiteralLine(lines[i]) /\ ~IsHeadingLine(lines[i])

\* lines 185-192
UnorderedLine ==
  /\ Plain /\ IsUnorderedLine(lines[i])
  /\ \E r1, r2 \in Responses :
       Commit(EmitTranslated(flush_text_buffer(Local, i - 1, r1),
                             UnorderedPrefix(lines[i]), UnorderedRest(lines[i]), i, r2),
              "wp_open", "loop")
  /\ UNCHANGED in_code

\* lines 194-200
OrderedLine ==
  /\ Plain /\ ~IsUnorderedLine(lines[i]) /\ IsOrderedLine(lines[i])
  /\ \E r1, r2 \in Responses :
       Commit(EmitTranslated(flush_text_buffer(Local, i - 1, r1),
                             OrderedMatch(lines[i]).prefix, OrderedMatch(lines[i]).rest, i, r2),
              "wp_open", "loop")
  /\ UNCHANGED in_code

\* mutant: the line is appended before the buffer is flushed
BufferAppendFirst(st, r) ==
  LET over == ~st.failed /\ ExceedsBudget(st.text_buf, lines[i])
      ap == IF st.failed THEN st ELSE [st EXCEPT !.text_buf = Append(@, lines[i])]
      fl == IF over THEN flush_text_buffer(ap, i, r) ELSE ap
  IN Commit(fl, IF over THEN "wp_open" ELSE "loop", IF over THEN "loop" ELSE ret)

(* lines 202-207: the default.  write_partial (line 206) reads out_lines    *)
(* and the two files only, so the append of line 207 is taken with the      *)
(* flush, before the steps of the write.                                    *)
Buffer(st, r) ==
  LET over == ~st.failed /\ ExceedsBudget(st.text_buf, lines[i])
      fl == IF over THEN flush_text_buffer(st, i - 1, r) ELSE st
      ap == IF fl.failed THEN fl ELSE [fl EXCEPT !.text_buf = Append(@, lines[i])]
  IN Commit(ap, IF over THEN "wp_open" ELSE "loop", IF over THEN "loop" ELSE ret)

ParagraphLine ==
  /\ Plain /\ ~IsUnorderedLine(lines[i]) /\ ~IsOrderedLine(lines[i]) /\ ~IsHashLine(lines[i])
  /\ \E r \in Responses : Buffer(Local, r)
  /\ UNCHANGED in_code

\* lines 177-183 with prefix.lstrip("#") != "": the buffer is flushed (line 178), then lines 202-207
HashtagLine ==
  /\ Plain /\ ~IsUnorderedLine(lines[i]) /\ ~IsOrderedLine(lines[i]) /\ IsHashLine(lines[i])
  /\ \E r1, r2 \in Responses : Buffer(flush_text_buffer(Local, i - 1, r1), r2)
  /\ UNCHANGED in_code

\* line 209, then write_partial of line 210
EndFlush ==
  /\ pc = "loop" /\ i > Len(lines)
  /\ \E r \in Responses : Commit(flush_text_buffer(Local, i - 1, r), "wp_open", "final_open")
  /\ UNCHANGED in_code

Keep == UNCHANGED <<lines, i, in_code, text_buf, out_lines, calls, origin, rvars, fvars, xvars, ivars>>

\* line 148: open(tmp, "w") creates or truncates the .partial file
PartialOpen ==
  /\ pc = "wp_open"
  /\ partial_file' = <<>>
  /\ pc' = "wp_write"
  /\ UNCHANGED <<out_file, ret>> /\ Keep

\* line 149: f.write(...), and the close at the end of the with block
PartialWrite ==
  /\ pc = "wp_write"
  /\ partial_file' = FileText(out_lines)
  /\ pc' = "wp_replace"
  /\ UNCHANGED <<out_file, ret>> /\ Keep

\* line 150: os.replace(tmp, args.out_path), atomic
PartialReplace ==
  /\ pc = "wp_replace"
  /\ out_file' = partial_file
  /\ partial_file' = NoFile
  /\ pc' = ret
  /\ UNCHANGED ret /\ Keep

\* line 213: open(args.out_path, "w") truncates the output file
FinalOpen ==
  /\ pc = "final_open"
  /\ out_file' = <<>>
  /\ pc' = "final_write"
  /\ UNCHANGED <<partial_file, ret>> /\ Keep

\* line 214: f.write(out), and the close; line 216: return 0
FinalWrite ==
  /\ pc = "final_write"
  /\ out_file' = FileText(out_lines)
  /\ pc' = "done"
  /\ UNCHANGED <<partial_file, ret>> /\ Keep

Next ==
  \/ FenceLine \/ CodeLine \/ LiteralLine \/ HeadingLine \/ UnorderedLine \/ OrderedLine
  \/ ParagraphLine \/ HashtagLine \/ EndFlush
  \/ PartialOpen \/ PartialWrite \/ PartialReplace \/ FinalOpen \/ FinalWrite

(* Input documents: every sequence of lines of one family, up to a length.  *)
(* Each family holds the lines one part of the loop tells apart.            *)
MaxLines == 3
MaxLinesSmall == 4

RECURSIVE SeqsUpTo(_, _)
SeqsUpTo(S, n) ==
  IF n = 0 THEN {<<>>}
  ELSE LET T == SeqsUpTo(S, n - 1)
       IN T \cup {Append(t, x) : t \in {u \in T : Len(u) = n - 1}, x \in S}

L_fence == Fence3
L_par == <<"x">>
L_blank == <<>>
L_url == Http \o <<"u">>
L_url_sp == Https \o <<"u", " ">>
L_head == <<"#", "#", " ", "a", " ", "b">>
L_head_in == <<" ", "#", " ", "a">>
L_hashtag == <<"#", "a", " ", "b">>
L_ul == <<" ", "-", " ", "a">>
L_ol == <<"1", "2", ".", " ", "a">>

FenceFamily == {L_fence, L_par, L_head_in}
MarkerFamily == {L_head, L_ul, L_ol, L_par}
HashFamily == {L_head_in, L_hashtag, L_par}
LiteralFamily == {L_blank, L_url, L_url_sp, Hr, L_par}
BudgetFamily == {Rep("x", 899), Rep("x", 900), Rep("x", 1801)}

Documents ==
  (SeqsUpTo(FenceFamily, MaxLinesSmall) \cup SeqsUpTo(MarkerFamily, MaxLines)
     \cup SeqsUpTo(HashFamily, MaxLinesSmall) \cup SeqsUpTo(LiteralFamily, MaxLines)
     \cup SeqsUpTo(BudgetFamily, MaxLines))
  \ {<<>>}

\* line 111: src; line 127: lines = src.replace(...).split("\n")
Init ==
  /\ \E doc \in Documents : lines = Split(Join(doc, <<NL>>), NL)
  /\ i = 1
  /\ in_code = FALSE
  /\ text_buf = <<>>
  /\ out_lines = <<>>
  /\ origin = <<>>
  /\ calls = <<>>
  /\ pc = "loop"
  /\ ret = "loop"
  /\ out_file = NoFile
  /\ partial_file = NoFile
  /\ RendererIdle
  /\ FetchIdle
  /\ SubjectIdle
  /\ IdIdle

Spec == Init /\ [][Next]_vars

----------------------------------------------------------------------------
(* Properties of the translation pipeline *)

Last(s) == s[Len(s)]

\* whether line k of the document ls lies inside a code fence: an odd number of fence lines before it
InCodeAt(ls, k) == Cardinality({j \in 1..(k - 1) : IsFenceLine(ls[j])}) % 2 = 1

\* input line c lies strictly between an opening fence line and its closing fence line
Enclosed(c) ==
  /\ ~IsFenceLine(lines[c])
  /\ InCodeAt(lines, c)
  /\ \E b \in (c + 1)..Len(lines) : IsFenceLine(lines[b])

OpenOf(c) ==
  CHOOSE a \in 1..(c - 1) :
    IsFenceLine(lines[a]) /\ \A j \in (a + 1)..(c - 1) : ~IsFenceLine(lines[j])

CloseOf(c) ==
  CHOOSE b \in (c + 1)..Len(lines) :
    IsFenceLine(lines[b]) /\ \A j \in (c + 1)..(b - 1) : ~IsFenceLine(lines[j])

\* the element of out_lines emitted for input line k alone
OutIndex(k) == CHOOSE p \in 1..Len(origin) : origin[p] = <<k, k>>

\* the line of the written file at which element p of out_lines starts
FileLineOf(p) ==
  IF p = 1 THEN 1 ELSE Len(Split(Join(SubSeq(out_lines, 1, p - 1), <<NL>>), NL)) + 1

\* the lines of the output file
OutputLines == Split(out_file, NL)

(* C1: when the pipeline has finished, every input line strictly between an *)
(* opening fence line and its closing fence line stands in the output file  *)
(* unchanged, at its input distance from both fence lines, whatever the     *)
(* translator answered.                                                     *)
C1_CodeLinesVerbatim ==
  pc = "done" =>
    \A c \in 1..Len(lines) :
      Enclosed(c) =>
        /\ \E p \in 1..Len(origin) : origin[p] = <<c, c>>
        /\ LET fa == FileLineOf(OutIndex(OpenOf(c)))
               fc == FileLineOf(OutIndex(c))
               fb == FileLineOf(OutIndex(CloseOf(c)))
           IN /\ fc - fa = c - OpenOf(c)
              /\ fb - fc = CloseOf(c) - c
              /\ fb <= Len(OutputLines)
              /\ OutputLines[fc] = lines[c]

\* a finished run with an indented, heading-like line inside a closed fence, after a translated paragraph
C1_Witness ==
  /\ pc = "done"
  /\ calls # <<>>
  /\ \E c \in 1..Len(lines) : Enclosed(c) /\ lines[c] = L_head_in /\ calls[1].hi < c

\* the structural marker of a line: <<"#", n>>, <<"-">>, <<"1.">>, or <<>> for none
MarkerOf(line) ==
  LET s == Strip(line)
      n == SkipWhile(s, 1, {"#"}) - 1
      d == SkipWhile(s, 1, Digits)
  IN IF n >= 1 /\ n < Len(s) /\ s[n + 1] = " " THEN <<"#", n>>
     ELSE IF StartsWith(s, <<"-", " ">>) THEN <<"-">>
     ELSE IF d > 1 /\ d <= Len(s) /\ s[d] = "." THEN <<"1.">>
     ELSE <<>>

\* the markers of the non-code lines among the first n lines of ls, in order
RECURSIVE MarkersUpTo(_, _)
MarkersUpTo(ls, n) ==
  IF n = 0 THEN <<>>
  ELSE MarkersUpTo(ls, n - 1) \o
       (IF ~IsFenceLine(ls[n]) /\ ~InCodeAt(ls, n) /\ MarkerOf(ls[n]) # <<>>
        THEN <<MarkerOf(ls[n])>> ELSE <<>>)

MarkersOf(ls) == MarkersUpTo(ls, Len(ls))

\* every translator call so far was answered with one line of plain text
PlainReplies == \A k \in 1..Len(calls) : calls[k].ok /\ calls[k].reply = <<"T">>

(* C2: the structural markers (heading with its count of #, unordered item, *)
(* ordered item) of the non-code lines of the output are those of the input,*)
(* in order and kind.  Stated for the translator behaviours most favourable *)
(* to it: every reply is one line of plain text.                            *)
C2_MarkersPreserved ==
  (pc = "done" /\ PlainReplies) => MarkersOf(OutputLines) = MarkersOf(lines)

\* line is blank or a bare URL
IsBlankOrUrl(line) ==
  LET s == Strip(line)
  IN s = <<>> \/ StartsWith(s, Http) \/ StartsWith(s, Https)

BlankOrUrlDocument == \A k \in 1..Len(lines) : IsBlankOrUrl(lines[k])

\* the input document: lines is its split at newlines
src == Join(lines, <<NL>>)

C4_ReaderSeesCompletePrefix ==
  out_file # NoFile =>
    \E k \in 0..Len(out_lines) : out_file = FileText(SubSeq(out_lines, 1, k))

\* a line that goes to the paragraph buffer arrives
BufferedLineArrives ==
  /\ pc = "loop" /\ i <= Len(lines)
  /\ ~in_code
  /\ ~IsFenceLine(lines[i]) /\ ~IsLiteralLine(lines[i]) /\ ~IsHeadingLine(lines[i])
  /\ ~IsUnorderedLine(lines[i]) /\ ~IsOrderedLine(lines[i])

(* C5: when a paragraph line arrives that would make the newline-joined     *)
(* buffer longer than 1800 characters, the translator is sent the buffer    *)
(* as it was, without that line, and the line becomes the first line of the *)
(* next chunk.                                                              *)
C5_OverflowLineStartsNextChunk ==
  [][ (BufferedLineArrives /\ Len(Join(text_buf \o <<lines[i]>>, <<NL>>)) > 1800) =>
        /\ text_buf # <<>> =>
             /\ Len(calls') = Len(calls) + 1
             /\ Last(calls').chunk = Join(text_buf, <<NL>>)
             /\ Last(calls').hi = i - 1
        /\ pc' # "aborted" => text_buf' = <<lines[i]>>
    ]_vars

\* the buffer was flushed for the line that now alone is the buffer, and the two together exceed the budget
C5_Witness ==
  /\ pc = "wp_open" /\ ret = "loop"
  /\ calls # <<>>
  /\ text_buf = <<lines[i - 1]>>
  /\ Last(calls).hi = i - 2
  /\ Last(calls).lo < Last(calls).hi
  /\ Len(Last(calls).chunk) <= max_chars
  /\ Len(Last(calls).chunk) + 1 + Len(lines[i - 1]) > max_chars

(* C6: the elements of out_lines stand in the order of the input lines they *)
(* were emitted for; the buffer holds exactly the input lines just before   *)
(* the loop position, nothing is emitted for a line at or after the first   *)
(* buffered line, and every line before it has its output.                  *)
C6_OrderMatchesInput ==
  /\ Len(origin) = Len(out_lines)
  /\ \A p, q \in 1..Len(origin) :
       p < q => (origin[p] = origin[q] \/ origin[p][2] < origin[q][1])
  /\ text_buf = SubSeq(lines, i - Len(text_buf), i - 1)
  /\ \A p \in 1..Len(origin) : origin[p][2] < i - Len(text_buf)
  /\ \A k \in 1..(i - Len(text_buf) - 1) :
       \E p \in 1..Len(origin) : origin[p][1] <= k /\ k <= origin[p][2]

\* a finished run that flushed a paragraph of two lines before a later line's output
C6_Witness ==
  /\ pc = "done"
  /\ \E p, q \in 1..Len(origin) :
       /\ origin[p][1] < origin[p][2]
       /\ p < q /\ origin[q][1] = origin[q][2]
       /\ origin[q][1] = origin[p][2] + 1

\* input line k is outside the code fences and no fence line
Outside(k) == ~IsFenceLine(lines[k]) /\ ~InCodeAt(lines, k)

\* input line k is translated on its own: a heading or a list item
TranslatedAlone(k) ==
  /\ Outside(k) /\ ~IsLiteralLine(lines[k])
  /\ (IsHeadingLine(lines[k]) \/ IsUnorderedLine(lines[k]) \/ IsOrderedLine(lines[k]))

\* input line k goes to the paragraph buffer
BufferedAt(k) ==
  /\ Outside(k) /\ ~IsLiteralLine(lines[k])
  /\ ~(IsHeadingLine(lines[k]) \/ IsUnorderedLine(lines[k]) \/ IsOrderedLine(lines[k]))

\* the text after the marker of a heading or list line
RestOf(line) ==
  IF IsHeadingLine(line) THEN HeadingRest(line)
  ELSE IF IsUnorderedLine(line) THEN UnorderedRest(line)
  ELSE OrderedMatch(line).rest

\* the paragraph chunks the run has emitted: the origins in out_lines that are buffered lines
EmittedChunks == {origin[p] : p \in {q \in 1..Len(origin) : BufferedAt(origin[q][1])}}

(* C7: in a finished run (no translator call failed) there is one call per  *)
(* flushed segment: the calls are as many as the heading and list lines     *)
(* plus the emitted paragraph chunks, each call carries the text of one     *)
(* heading or list line or of one run of buffered lines, and no input line  *)
(* is sent twice.                                                           *)
C7_OneCallPerSegment ==
  pc = "done" =>
    /\ \A c \in 1..Len(calls) : calls[c].ok
    /\ Len(calls) = Cardinality({k \in 1..Len(lines) : TranslatedAlone(k)})
                      + Cardinality(EmittedChunks)
    /\ \A c, d \in 1..Len(calls) : c < d => calls[c].hi < calls[d].lo
    /\ \A c \in 1..Len(calls) :
         \/ /\ calls[c].lo = calls[c].hi
            /\ TranslatedAlone(calls[c].lo)
            /\ calls[c].chunk = RestOf(lines[calls[c].lo])
         \/ /\ \A k \in calls[c].lo..calls[c].hi : BufferedAt(k)
            /\ calls[c].chunk = Join(SubSeq(lines, calls[c].lo, calls[c].hi), <<NL>>)
            /\ <<calls[c].lo, calls[c].hi>> \in EmittedChunks
    /\ \A k \in 1..Len(lines) :
         (TranslatedAlone(k) \/ BufferedAt(k)) =>
           \E c \in 1..Len(calls) : calls[c].lo <= k /\ k <= calls[c].hi

\* a finished run with a two-line paragraph chunk and a heading or list line
C7_Witness ==
  /\ pc = "done"
  /\ Len(calls) >= 2
  /\ \E c \in 1..Len(calls) : calls[c].lo < calls[c].hi
  /\ \E k \in 1..Len(lines) : TranslatedAlone(k)

(* C8: a failed translator call ends the run: it is the last call (not      *)
(* retried, none after it), the step that fails and every later step write  *)
(* nothing, and the output path holds what the most recent partial write    *)
(* put there, or no file if there was none.                                 *)
C8_State ==
  /\ \A k \in 1..Len(calls) : ~calls[k].ok => (k = Len(calls) /\ pc = "aborted")
  /\ pc = "aborted" =>
       /\ calls # <<>> /\ ~Last(calls).ok
       /\ partial_file = NoFile
       /\ \/ out_file = NoFile
          \/ \E k \in 0..Len(out_lines) : out_file = FileText(SubSeq(out_lines, 1, k))

C8_Step ==
  /\ pc' = "aborted" => (out_file' = out_file /\ partial_file' = partial_file)
  /\ pc = "aborted" => UNCHANGED vars

C8_FailureAborts == []C8_State /\ [][C8_Step]_vars

\* a run aborted by its second call, after a partial write
C8_Witness ==
  /\ pc = "aborted"
  /\ Len(calls) >= 2
  /\ out_file # NoFile

\* the number of whitespace characters line begins with
LeadOf(line) == SkipWhile(line, 1, WhiteSpace) - 1

\* the number of '#' characters after them
HashesOf(line) == SkipWhile(line, LeadOf(line) + 1, {"#"}) - 1 - LeadOf(line)

\* line is a heading: its trimmed content starts with one or more '#' followed by a space
ClaimHeading(line) ==
  /\ HashesOf(line) >= 1
  /\ LeadOf(line) + HashesOf(line) < Len(line)
  /\ line[LeadOf(line) + HashesOf(line) + 1] = " "

\* the text of a heading line after its marker and the space
AfterMarker(line) == SubSeq(line, LeadOf(line) + HashesOf(line) + 2, Len(line))

(* C14: in a finished run, for every heading line outside a code fence,     *)
(* indented or not, the translator was sent only the text after the '#'     *)
(* marker, and the line emitted for it is the '#' prefix of the line, a     *)
(* space and the translated text.                                           *)
C14_HeadingMarkerNotTranslated ==
  pc = "done" =>
    \A k \in 1..Len(lines) :
      (Outside(k) /\ ClaimHeading(lines[k])) =>
        \E c \in 1..Len(calls) :
          /\ calls[c].lo = k /\ calls[c].hi = k
          /\ calls[c].chunk = AfterMarker(lines[k])
          /\ \E p \in 1..Len(origin) :
               /\ origin[p] = <<k, k>>
               /\ out_lines[p] = SubSeq(lines[k], 1, LeadOf(lines[k]) + HashesOf(lines[k]))
                                   \o <<" ">> \o calls[c].reply

(* C15: in every reachable state the newline-joined paragraph buffer is at  *)
(* most 1800 characters long, and so is every paragraph chunk handed to     *)
(* the translator.                                                          *)
C15_BufferWithinBudget ==
  /\ Len(Join(text_buf, <<NL>>)) <= 1800
  /\ \A c \in 1..Len(calls) :
       (\A k \in calls[c].lo..calls[c].hi : BufferedAt(k)) => Len(calls[c].chunk) <= 1800

\* input line k is none of: inside a fence, a fence line, a blank, divider or URL line, a heading, a list line
OtherLine(k) ==
  /\ Outside(k) /\ ~IsLiteralLine(lines[k]) /\ ~ClaimHeading(lines[k])
  /\ ~IsUnorderedLine(lines[k]) /\ ~IsOrderedLine(lines[k])

(* C16: a line that is no fence, literal, heading or list line is only      *)
(* appended to the buffer: in a finished run, consecutive such lines from   *)
(* the start of their run on, as far as they fit the budget of 1800         *)
(* characters, were sent to the translator in one call.                     *)
C16_OtherLinesShareOneCall ==
  pc = "done" =>
    \A a \in 1..Len(lines), b \in 1..Len(lines) :
      ( /\ a <= b
        /\ \A k \in a..b : OtherLine(k)
        /\ (a = 1 \/ ~OtherLine(a - 1))
        /\ Len(Join(SubSeq(lines, a, b), <<NL>>)) <= 1800 ) =>
        \E c \in 1..Len(calls) : calls[c].lo = a /\ calls[c].hi >= b

----------------------------------------------------------------------------
(* fetch_tweet.py (x-twitter-fetch): the article renderer *)

\* lines 45-47: text.replace("\r\n", "\n").replace("\r", "\n")
RECURSIVE _md_escape(_)
_md_escape(t) ==
  IF t = <<>> THEN <<>>
  ELSE IF t[1] = CR
       THEN <<NL>> \o _md_escape(IF Len(t) >= 2 /\ t[2] = NL THEN SubSeq(t, 3, Len(t)) ELSE Tail(t))
       ELSE <<t[1]>> \o _md_escape(Tail(t))

\* mutant: an atomic block is rendered as the blank line the comment of line 99 speaks of
BlockLineAtomicBlank(btype, text) ==
  IF btype = "header-one" THEN <<"#", " ">> \o text
  ELSE IF btype = "header-two" THEN <<"#", "#", " ">> \o text
  ELSE IF btype = "header-three" THEN <<"#", "#", "#", " ">> \o text
  ELSE IF btype = "unordered-list-item" THEN <<"-", " ">> \o text
  ELSE IF btype = "ordered-list-item" THEN <<"1", ".", " ">> \o text
  ELSE IF btype = "atomic" THEN <<>>
  ELSE text

\* lines 87-103: the Markdown of one block
BlockLine(btype, text) ==
  IF btype = "header-one" THEN <<"#", " ">> \o text
  ELSE IF btype = "header-two" THEN <<"#", "#", " ">> \o text
  ELSE IF btype = "header-three" THEN <<"#", "#", "#", " ">> \o text
  ELSE IF btype = "unordered-list-item" THEN <<"-", " ">> \o text
  ELSE IF btype = "ordered-list-item" THEN <<"1", ".", " ">> \o text
  ELSE IF btype = "atomic" THEN <<"-", "-", "-">>
  ELSE text

\* lines 77-103: out after the loop over the blocks bs
RECURSIVE RenderOut(_)
RenderOut(bs) ==
  IF bs = <<>> THEN <<>>
  ELSE LET b == bs[Len(bs)]
           text == _md_escape(Strip(b.text))
       IN RenderOut(SubSeq(bs, 1, Len(bs) - 1)) \o
          (IF text = <<>> /\ b.type # "atomic" THEN <<>> ELSE <<BlockLine(b.type, text)>>)

NonEmpty(x) == x # <<>>

\* lines 73-106: _render_article_blocks_md, from the blocks of the article
_render_article_blocks_md(bs) == Join(SelectSeq(RenderOut(bs), NonEmpty), <<NL, NL>>)

MaxBlocks == 2

W_Intro == <<"I", "n", "t", "r", "o">>
W_first == <<"f", "i", "r", "s", "t">>
W_second == <<"s", "e", "c", "o", "n", "d">>

Block(t, x) == [type |-> t, text |-> x]

BlockSet ==
  { Block("header-one", W_Intro), Block("header-two", <<" ", "x", " ">>),
    Block("header-three", <<"x">>), Block("unordered-list-item", W_first),
    Block("ordered-list-item", <<"x">>), Block("atomic", <<>>), Block("atomic", <<"x">>),
    Block("unstyled", <<"a", CR, NL, "b">>), Block("unstyled", <<" ">>),
    Block("blockquote", <<>>) }

ExampleBlocks ==
  << Block("header-one", W_Intro), Block("unordered-list-item", W_first),
     Block("atomic", <<>>), Block("unordered-list-item", W_second) >>

InitRender ==
  /\ blocks \in SeqsUpTo(BlockSet, MaxBlocks) \cup {ExampleBlocks}
  /\ md = <<>>
  /\ rpc = "start"
  /\ PipelineIdle
  /\ FetchIdle
  /\ SubjectIdle
  /\ IdIdle

Render ==
  /\ rpc = "start"
  /\ md' = _render_article_blocks_md(blocks)
  /\ rpc' = "rendered"
  /\ UNCHANGED <<blocks, pvars, fvars, xvars, ivars>>

NextRender == Render

SpecRender == InitRender /\ [][NextRender]_vars

\* the prefix the claim gives a block type
ClaimPrefix(btype) ==
  IF btype = "header-one" THEN <<"#", " ">>
  ELSE IF btype = "header-two" THEN <<"#", "#", " ">>
  ELSE IF btype = "header-three" THEN <<"#", "#", "#", " ">>
  ELSE IF btype = "unordered-list-item" THEN <<"-", " ">>
  ELSE IF btype = "ordered-list-item" THEN <<"1", ".", " ">>
  ELSE <<>>

\* the per-block strings of the claim, in block order; trim says whether the text is trimmed first
RECURSIVE ClaimParts(_, _)
ClaimParts(bs, trim) ==
  IF bs = <<>> THEN <<>>
  ELSE LET b == bs[1]
           text == IF trim THEN _md_escape(Strip(b.text)) ELSE b.text
           part == IF b.type = "atomic" THEN << <<"-", "-", "-">> >>
                   ELSE IF text = <<>> THEN <<>>
                   ELSE <<ClaimPrefix(b.type) \o text>>
       IN part \o ClaimParts(Tail(bs), trim)

ExampleMd ==
  <<"#", " ">> \o W_Intro \o <<NL, NL, "-", " ">> \o W_first
    \o <<NL, NL, "-", "-", "-", NL, NL, "-", " ">> \o W_second

----------------------------------------------------------------------------
(* The fetch commands: twitter-viewer/scripts/fetch_tweet.py and            *)
(* fetch_user_tweets.py (the same _fetch), x-twitter-fetch/scripts/         *)
(* fetch_tweet.py (fetch).  A message is a sequence of text pieces.         *)

Clients == {"viewer_tweet", "viewer_user", "fx"}

B_notfound == "{\"error\":\"not found\"}"
B_tweet == "{\"tweet\":{}}"
B_html == "<html>"
Bodies == {B_notfound, B_tweet, B_html, ""}

\* json.loads accepts the body
IsJson(body) == body \in {B_notfound, B_tweet}

\* json.dumps(json.loads(body), ensure_ascii=False): the separators are ", " and ": "
Dumps(body) ==
  IF body = B_notfound THEN "{\"error\": \"not found\"}"
  ELSE IF body = B_tweet THEN "{\"tweet\": {}}"
  ELSE body

Reason(status) ==
  IF status = "200" THEN "OK"
  ELSE IF status = "404" THEN "Not Found"
  ELSE "Internal Server Error"

\* what one GET meets: an HTTP response, or a transport failure (DNS, connect, timeout)
Outcomes ==
  [kind : {"http"}, status : {"200", "404", "500"}, body : Bodies, msg : {""}]
    \cup [kind : {"transport"}, status : {""}, body : {""}, msg : {"timed out"}]

\* urllib answers a status outside 200..299 by raising HTTPError
Is2xx(status) == status = "200"

\* msg.strip(), for a message whose pieces are words and single spaces
StripPieces(m) == StripChars(m, {" ", ""})

Raised(m) == [ok |-> FALSE, value |-> "", msg |-> m]
Returned(v) == [ok |-> TRUE, value |-> v, msg |-> <<>>]

\* twitter-viewer fetch_tweet.py lines 36-57 (fetch_user_tweets.py lines 32-53): _fetch
_fetch(resp) ==
  IF resp.kind = "transport" THEN Raised(<<resp.msg>>)
  ELSE IF ~Is2xx(resp.status)
       THEN Raised(StripPieces(<<"HTTP", " ", resp.status, ":", " ", resp.body>>))
  ELSE IF IsJson(resp.body) THEN Returned(resp.body)
  ELSE Raised(<<"Response was not valid JSON">>)

\* x-twitter-fetch fetch_tweet.py lines 130-142: fetch; str(HTTPError) is "HTTP Error <code>: <reason>"
fetch(resp) ==
  IF resp.kind = "transport" THEN Raised(<<resp.msg>>)
  ELSE IF ~Is2xx(resp.status)
       THEN Raised(<<"HTTP Error", " ", resp.status, ":", " ", Reason(resp.status)>>)
  ELSE Returned(resp.body)

InitFetch ==
  /\ client \in Clients
  /\ args \in [src : {"tweet_id", "username", "url", "message"}, has_id : BOOLEAN,
                raw : BOOLEAN, out : BOOLEAN]
  /\ (client = "viewer_tweet" => args.src \in {"tweet_id", "message"} /\ ~args.raw)
  /\ (client = "viewer_user" => args.src = "username" /\ args.has_id /\ ~args.raw)
  /\ (client = "fx" => args.src \in {"username", "url", "message"})
  /\ response \in Outcomes
  /\ fetched = <<>>
  /\ stdout = <<>>
  /\ stderr = <<>>
  /\ exit_code = -1
  /\ written = NoFile
  /\ fpc = "start"
  /\ PipelineIdle
  /\ RendererIdle
  /\ SubjectIdle
  /\ IdIdle

Exit(code, out, err) ==
  /\ exit_code' = code
  /\ stdout' = out
  /\ stderr' = err
  /\ fpc' = "exited"
  /\ UNCHANGED <<client, args, response, fetched, written, pvars, rvars, xvars, ivars>>

\* twitter-viewer fetch_tweet.py lines 60-63 and 111-112: _write_output with --out, return 0
ExitFile(payload) ==
  /\ exit_code' = 0
  /\ written' = <<payload>>
  /\ fpc' = "exited"
  /\ UNCHANGED <<client, args, response, fetched, stdout, stderr, pvars, rvars, xvars, ivars>>

\* twitter-viewer fetch_tweet.py lines 100-102: no tweet id
ViewerNoId ==
  /\ fpc = "start" /\ client = "viewer_tweet" /\ ~args.has_id
  /\ Exit(2, <<>>, <<"Error: tweetId not found. Provide --tweet-id or --message containing a tweet URL.">>)

\* twitter-viewer fetch_tweet.py lines 104-106, fetch_user_tweets.py lines 73-75: the call of _fetch
ViewerFetch ==
  /\ fpc = "start" /\ client \in {"viewer_tweet", "viewer_user"} /\ args.has_id
  /\ fetched' = _fetch(response)
  /\ fpc' = "fetched"
  /\ UNCHANGED <<client, args, response, stdout, stderr, exit_code, written, pvars, rvars, xvars, ivars>>

\* twitter-viewer fetch_tweet.py lines 107-112, fetch_user_tweets.py lines 76-81
ViewerReport ==
  /\ fpc = "fetched" /\ client \in {"viewer_tweet", "viewer_user"}
  /\ IF ~fetched.ok THEN Exit(2, <<>>, <<"Error:", " ">> \o fetched.msg)
     ELSE IF args.out THEN ExitFile(Dumps(fetched.value))
     ELSE Exit(0, <<Dumps(fetched.value)>>, <<>>)

\* x-twitter-fetch fetch_tweet.py lines 199-217: no tweet id given, none found in the text
FxNoId ==
  /\ fpc = "start" /\ client = "fx" /\ ~args.has_id
  /\ Exit(2, <<>>,
          IF args.src = "username" THEN <<"ERROR: --tweet-id is required when using --username">>
          ELSE IF args.src = "url" THEN <<"ERROR: Could not parse tweet URL">>
          ELSE <<"ERROR: Could not find tweet URL in --message">>)

\* x-twitter-fetch fetch_tweet.py lines 219-220: the call of fetch
FxFetch ==
  /\ fpc = "start" /\ client = "fx" /\ args.has_id
  /\ fetched' = fetch(response)
  /\ fpc' = "fetched"
  /\ UNCHANGED <<client, args, response, stdout, stderr, exit_code, written, pvars, rvars, xvars, ivars>>

\* x-twitter-fetch fetch_tweet.py lines 221-234 and 390-395: the report of main without --extract
FxReport ==
  /\ fpc = "fetched" /\ client = "fx"
  /\ IF ~fetched.ok THEN Exit(1, <<>>, <<"ERROR: request failed:", " ">> \o fetched.msg)
     ELSE IF args.raw \/ ~IsJson(fetched.value) THEN Exit(0, <<fetched.value>>, <<>>)
     ELSE Exit(0, <<Dumps(fetched.value)>>, <<>>)

NextFetch == ViewerNoId \/ ViewerFetch \/ ViewerReport \/ FxNoId \/ FxFetch \/ FxReport

SpecFetch == InitFetch /\ [][NextFetch]_vars

\* the text pieces of a message
Pieces(m) == {m[k] : k \in 1..Len(m)}

(* C10: in every fetch client a response with a status outside 2xx ends in  *)
(* a request error whose reported detail holds the status code and the      *)
(* text of the response body.                                               *)
C10_ErrorCarriesStatusAndBody ==
  (fpc = "exited" /\ fetched # <<>> /\ response.kind = "http" /\ ~Is2xx(response.status)) =>
    /\ exit_code # 0
    /\ response.status \in Pieces(stderr)
    /\ (response.body = "" \/ response.body \in Pieces(stderr))

\* the invocation met one of the three failures: no identifier, a failed fetch, a body that is not JSON
FetchFailed ==
  \/ ~args.has_id
  \/ /\ fetched # <<>>
     /\ \/ response.kind = "transport"
        \/ ~Is2xx(response.status)
        \/ ~IsJson(response.body)

(* C11: in every fetch command an invocation in which no identifier is      *)
(* found, the fetch fails, or the response body is not valid JSON ends      *)
(* with a non-zero exit status and a diagnostic on stderr, with nothing on  *)
(* stdout and no output file.                                               *)
C11_FailureIsReported ==
  (fpc = "exited" /\ FetchFailed) =>
    /\ exit_code # 0
    /\ stderr # <<>>
    /\ stdout = <<>>
    /\ written = NoFile

----------------------------------------------------------------------------
(* fetch_tweet.py (x-twitter-fetch), main lines 236-260: the post that is   *)
(* extracted.  A post is a record: article is its "article" ("null" for    *)
(* None or absent), embedded the "article" of its "tweet", quote the post   *)
(* under "quote" as a sequence of length one, <<>> when there is none.      *)

Post(a, e, q, n, u) == [article |-> a, embedded |-> e, quote |-> q, id |-> n, url |-> u]

\* a quoted post inside a quoted post
InnerPosts == {Post("A_inner", "null", <<>>, "9", "")}

QuotedPosts ==
  {Post(a, e, q, n, u) : a \in {"null", "{}", "A_quote"}, e \in {"null", "A_embedded"},
                         q \in {<<>>} \cup {<<p>> : p \in InnerPosts},
                         n \in {"", "7"}, u \in {"", "u"}}

TopPosts ==
  {Post(a, "null", q, "1", "o") : a \in {"null", "A_outer"},
                                  q \in {<<>>} \cup {<<p>> : p \in QuotedPosts}}

\* line 242: quote0 and (quote0.get("article") is not None or quote0["tweet"].get("article") is not None)
HasArticleQuote(post) ==
  /\ post.quote # <<>>
  /\ (post.quote[1].article # "null" \/ post.quote[1].embedded # "null")

\* lines 239-243: the post under obj["tweet"] after the substitution
FollowQuote(post) == IF HasArticleQuote(post) THEN post.quote[1] ELSE post

\* lines 244-247: the NOTE on stderr
FollowNote(post) ==
  IF HasArticleQuote(post) /\ (post.quote[1].id # "" \/ post.quote[1].url # "")
  THEN <<"NOTE: followed_quote=",
         IF post.quote[1].id # "" THEN post.quote[1].id ELSE post.quote[1].url>>
  ELSE <<>>

InitSubject ==
  /\ obj \in TopPosts
  /\ subject = obj
  /\ article = ""
  /\ note = <<>>
  /\ xpc = "parsed"
  /\ PipelineIdle
  /\ RendererIdle
  /\ FetchIdle
  /\ IdIdle

\* lines 238-249
Follow ==
  /\ xpc = "parsed"
  /\ subject' = FollowQuote(obj)
  /\ note' = FollowNote(obj)
  /\ xpc' = "followed"
  /\ UNCHANGED <<obj, article, pvars, rvars, fvars, ivars>>

\* lines 251-258 with --extract: article = tweet.get("article") or {}
Extract ==
  /\ xpc = "followed"
  /\ article' = IF subject.article = "null" THEN "{}" ELSE subject.article
  /\ xpc' = "extracted"
  /\ UNCHANGED <<obj, subject, note, pvars, rvars, fvars, ivars>>

NextSubject == Follow \/ Extract

SpecSubject == InitSubject /\ [][NextSubject]_vars

\* the post carries Article data, its own or (for a quoted post) that of its embedded tweet
Carries(post) == post.article # "null" \/ post.embedded # "null"

(* C12: the quoted post replaces the top-level post as the subject if and   *)
(* only if the quoted post carries Article data and the outer post carries  *)
(* none; an outer post with its own Article stays the subject; the          *)
(* substitution goes one level deep only; after it the subject carries the  *)
(* Article.                                                                 *)
C12_SubjectSubstitution ==
  xpc \in {"followed", "extracted"} =>
    /\ (subject # obj) <=> (obj.quote # <<>> /\ Carries(obj.quote[1]) /\ ~Carries(obj))
    /\ Carries(obj) => subject = obj
    /\ subject # obj => subject = obj.quote[1]
    /\ subject # obj => subject.article # "null"
    /\ (xpc = "extracted" /\ subject # obj) => article \notin {"null", "{}"}

----------------------------------------------------------------------------
(* twitter-viewer fetch_tweet.py: _extract_tweet_id *)

\* the value None
None == <<"None">>

\* re.IGNORECASE: a letter and its lower-case form match each other
Fold(c) ==
  IF c = "T" THEN "t" ELSE IF c = "W" THEN "w" ELSE IF c = "E" THEN "e"
  ELSE IF c = "I" THEN "i" ELSE IF c = "D" THEN "d" ELSE IF c = "S" THEN "s"
  ELSE IF c = "A" THEN "a" ELSE IF c = "U" THEN "u" ELSE c

FoldAll(s) == [k \in 1..Len(s) |-> Fold(s[k])]

\* the characters of the regex class \w
WordChars ==
  Digits \cup {"_", "a", "d", "e", "i", "s", "t", "u", "w", "A", "D", "E", "I", "S", "T", "U", "W"}

\* lines 20-24: the literal prefixes of TWEET_ID_PATTERNS, in the order of the list, folded
P_tweetId == <<"t", "w", "e", "e", "t", "i", "d", "=">>
P_status == <<"/", "s", "t", "a", "t", "u", "s", "/">>
P_statuses == <<"/", "s", "t", "a", "t", "u", "s", "e", "s", "/">>

\* mutant: /status/ is tried before tweetId=
TWEET_ID_PATTERNS_Reordered == <<P_status, P_tweetId, P_statuses>>

TWEET_ID_PATTERNS == <<P_tweetId, P_status, P_statuses>>

\* the pattern prefix([0-9]{5,}) matches s at position p
MatchesAt(s, prefix, p) ==
  /\ p + Len(prefix) - 1 <= Len(s)
  /\ FoldAll(SubSeq(s, p, p + Len(prefix) - 1)) = prefix
  /\ SkipWhile(s, p + Len(prefix), Digits) - (p + Len(prefix)) >= 5

\* line 75-77: pattern.search(text), group(1) of the leftmost match (greedy); None without a match
RECURSIVE Search(_, _, _)
Search(s, prefix, p) ==
  IF p > Len(s) THEN None
  ELSE IF MatchesAt(s, prefix, p)
       THEN SubSeq(s, p + Len(prefix), SkipWhile(s, p + Len(prefix), Digits) - 1)
       ELSE Search(s, prefix, p + 1)

\* lines 74-77: the loop over the patterns from index j on
RECURSIVE FirstPattern(_, _)
FirstPattern(s, j) ==
  IF j > Len(TWEET_ID_PATTERNS) THEN None
  ELSE IF Search(s, TWEET_ID_PATTERNS[j], 1) # None THEN Search(s, TWEET_ID_PATTERNS[j], 1)
  ELSE FirstPattern(s, j + 1)

\* \b\d{15,19}\b matches s at position p: a whole run of digits between two word boundaries
StandaloneAt(s, p) ==
  /\ p <= Len(s) /\ s[p] \in Digits
  /\ (p = 1 \/ s[p - 1] \notin WordChars)
  /\ SkipWhile(s, p, Digits) - p \in 15..19
  /\ (SkipWhile(s, p, Digits) > Len(s) \/ s[SkipWhile(s, p, Digits)] \notin WordChars)

\* lines 78-80: re.findall(...)[0]; None when the list is empty
RECURSIVE FirstStandalone(_, _)
FirstStandalone(s, p) ==
  IF p > Len(s) THEN None
  ELSE IF StandaloneAt(s, p) THEN SubSeq(s, p, SkipWhile(s, p, Digits) - 1)
  ELSE FirstStandalone(s, p + 1)

\* str.isdigit(): not empty and digits only
IsDigit(s) == s # <<>> /\ \A k \in 1..Len(s) : s[k] \in Digits

\* lines 68-81
_extract_tweet_id(s) ==
  IF s = <<>> THEN None
  ELSE IF IsDigit(Strip(s)) THEN Strip(s)
  ELSE IF FirstPattern(s, 1) # None THEN FirstPattern(s, 1)
  ELSE FirstStandalone(s, 1)

MaxTokens == 3

\* the pieces the texts are made of
Tokens ==
  { <<"t", "w", "e", "e", "t", "I", "d", "=", "1", "1", "1", "1", "1">>,
    <<"T", "W", "E", "E", "T", "I", "D", "=", "2", "2", "2", "2", "2">>,
    <<"/", "s", "t", "a", "t", "u", "s", "/", "3", "3", "3", "3", "3">>,
    <<"/", "s", "t", "a", "t", "u", "s", "e", "s", "/", "4", "4", "4", "4", "4">>,
    <<"/", "s", "t", "a", "t", "u", "s", "/", "1", "2", "3", "4">>,
    Rep("5", 15), <<"1", "2", "3">>, <<" ">>, <<"a">> }

Texts == {Join(ts, <<>>) : ts \in SeqsUpTo(Tokens, MaxTokens)}

InitId ==
  /\ id_text \in Texts
  /\ tweet_id = <<>>
  /\ ipc = "start"
  /\ PipelineIdle
  /\ RendererIdle
  /\ FetchIdle
  /\ SubjectIdle

ExtractId ==
  /\ ipc = "start"
  /\ tweet_id' = _extract_tweet_id(id_text)
  /\ ipc' = "returned"
  /\ UNCHANGED <<id_text, pvars, rvars, fvars, xvars>>

NextId == ExtractId

SpecId == InitId /\ [][NextId]_vars

\* the priority order of the claim: tweetId=, then /status/, then /statuses/
ClaimPatterns == <<P_tweetId, P_status, P_statuses>>

\* pattern j of the claim matches the text at position p
ClaimMatch(j, p) == MatchesAt(id_text, ClaimPatterns[j], p)

\* the run of digits of the text that starts at position p
DigitsFrom(p) == SubSeq(id_text, p, SkipWhile(id_text, p, Digits) - 1)

Positions == 1..Len(id_text)

(* C13: the identifier extractor returns the trimmed text if that is all    *)
(* digits; otherwise the identifier of the leftmost match of the            *)
(* highest-priority pattern that matches anywhere (tweetId=, /status/,      *)
(* /statuses/), wherever the lower-priority patterns match; otherwise the   *)
(* first standalone run of 15 to 19 digits; otherwise none.                 *)
C13_FixedPriorityFirstMatch ==
  ipc = "returned" =>
    IF IsDigit(Strip(id_text)) THEN tweet_id = Strip(id_text)
    ELSE IF \E j \in 1..3, p \in Positions : ClaimMatch(j, p)
    THEN \E j \in 1..3, p \in Positions :
           /\ ClaimMatch(j, p)
           /\ \A h \in 1..(j - 1), q \in Positions : ~ClaimMatch(h, q)
           /\ \A q \in 1..(p - 1) : ~ClaimMatch(j, q)
           /\ tweet_id = DigitsFrom(p + Len(ClaimPatterns[j]))
    ELSE IF \E p \in Positions : StandaloneAt(id_text, p)
    THEN \E p \in Positions :
           /\ StandaloneAt(id_text, p)
           /\ \A q \in 1..(p - 1) : ~StandaloneAt(id_text, q)
           /\ tweet_id = DigitsFrom(p)
    ELSE tweet_id = None

\* a /status/ link stands before a tweetId= parameter and the identifier of the parameter is returned
C13_Witness ==
  /\ ipc = "returned"
  /\ id_text = <<"/", "s", "t", "a", "t", "u", "s", "/", "3", "3", "3", "3", "3", " ", "t", "w", "e", "e", "t", "I", "d", "=", "1", "1", "1", "1", "1">>
  /\ tweet_id = <<"1", "1", "1", "1", "1">>

====
